---- MODULE Spec2Model ----
(***************************************************************************)
(* Model of spine's fatal-signal subsystem (error.c): the monitored-signal *)
(* table, install_spine_signal_handler, uninstall_spine_signal_handler and *)
(* spine_signal_handler, running against the OS per-signal disposition     *)
(* table.                                                                  *)
(*                                                                         *)
(* A disposition is a struct sigaction: handler, blocked mask, flags.      *)
(* libc signal() is modelled with its BSD (glibc) semantics: it registers  *)
(* the handler with the signal itself in the mask and SA_RESTART.          *)
(* Every statement of the two loops and of the handler that reads or       *)
(* writes shared state is one step. A signal is delivered to the lowest    *)
(* thread that is not inside the handler (threads are interchangeable).    *)
(* pre, last and prev are history variables: the table when the running    *)
(* call began, and the last two calls that returned with no delivery or    *)
(* registration since. regs remembers what other components registered.   *)
(***************************************************************************)
EXTENDS Integers, Sequences, FiniteSets, TLC

\* ------------------------------------------------------------------ bounds
MaxForeign    == 1   \* signals other components may hold at the same time
MaxDeliveries == 1   \* signal deliveries in one behaviour
StackCap      == 1   \* capacity of set.exit_stack (frames)
NumThreads    == 2   \* threads that can be interrupted by a signal

\* ------------------------------------------------- signals (Linux numbers)
SIGINT  == 2
SIGPIPE == 13
SIGSEGV == 11
SIGBUS  == 7
SIGFPE  == 8
SIGQUIT == 3
SIGSYS  == 31
SIGABRT == 6

\* the sentinel-terminated table, error.c:119-129
\* variant: SIGTERM added to the table
spine_fatal_signals_bad == <<SIGINT, SIGPIPE, SIGSEGV, SIGBUS, SIGFPE, SIGQUIT, SIGSYS, SIGABRT, 15, 0>>
spine_fatal_signals == <<SIGINT, SIGPIPE, SIGSEGV, SIGBUS, SIGFPE, SIGQUIT, SIGSYS, SIGABRT, 0>>

\* the entries before the sentinel
Monitored == {spine_fatal_signals[k] : k \in 1..(Len(spine_fatal_signals) - 1)}
\* signals outside the table that the process can also receive: SIGHUP, SIGTERM
Unmonitored == {1, 15}
AllSignals == Monitored \cup Unmonitored
\* signals other components of the process register dispositions for: the
\* first and last entries of the table, SIGPIPE, and SIGTERM outside it
ForeignSignals == {SIGINT, SIGPIPE, SIGABRT, 15}

\* ------------------------------------------------------------ dispositions
SIG_DFL == "SIG_DFL"
SIG_IGN == "SIG_IGN"
\* the address of spine_signal_handler, as a handler value
SpineHandler == "spine_signal_handler"
\* handlers owned by other components linked into the process
OtherHandlers == {"other_handler"}

SigAct(h, m, f) == [sa_handler |-> h, sa_mask |-> m, sa_flags |-> f]

\* what a process has for every signal after exec
DefaultTable == [s \in AllSignals |-> SigAct(SIG_DFL, {}, {})]

\* registrations other components make: signal(sig, SIG_IGN), and sigaction()
\* of a handler with SIGTERM in its mask and SA_SIGINFO
ForeignActs(sig) ==
    { SigAct(SIG_IGN, {sig}, {"SA_RESTART"}),
      SigAct("other_handler", {15}, {"SA_SIGINFO"}) }

\* the struct sigaction that libc signal(sig, h) registers (BSD semantics)
SignalAct(sig, h) == SigAct(h, {sig}, {"SA_RESTART"})

\* error.c:145-147: the struct sigaction install registers in its first pass
InstallAct(sa) == SigAct(SpineHandler, {}, {"SA_RESTART"})

\* error.c:144 (variant: any handler but its own is replaced)
InstallTest_bad(sa) == sa.sa_handler # SpineHandler
InstallTest(sa) == sa.sa_handler = SIG_DFL

\* error.c:154
InstallKeep(oh) == oh = SIG_DFL

\* error.c:155: the handler the second signal() call puts back
\* variant: an old spine_signal_handler is taken off, anything else overwritten
InstallRestoreTo_bad(oh) == IF oh = SpineHandler THEN SIG_DFL ELSE SpineHandler
InstallRestoreTo(oh) == oh

\* error.c:174 (variant: every non-default handler is removed)
UninstallTest_bad(sa) == sa.sa_handler # SIG_DFL
UninstallTest(sa) == sa.sa_handler = SpineHandler

\* error.c:175
UninstallAct(sa) == SigAct(SIG_DFL, sa.sa_mask, sa.sa_flags)

\* error.c:182
UninstallKeep(oh) == oh = SpineHandler

\* error.c:183: the handler the second signal() call puts back
\* variant: the old handler is not put back
UninstallRestoreTo_bad(oh) == SIG_DFL
UninstallRestoreTo(oh) == oh

\* the process: running, ended by exit(c), or ended by a signal's default action
ProcRunning == [state |-> "running", code |-> 0]
ProcExited(c) == [state |-> "exited", code |-> c]
ProcKilled(sig) == [state |-> "killed", code |-> sig]

NoCall == [op |-> "none"]
NoSa == SigAct(SIG_DFL, {}, {})

VARIABLES
    disp,             \* the OS disposition table: signal -> struct sigaction
    pc, i, sa, ohandler,   \* the thread calling install/uninstall and its locals
    pre,              \* disp when the running call began
    last, prev,       \* the last two completed calls, back to back
    hpc, hsig, hact,  \* per thread: position in spine_signal_handler, its argument
    req, exit_strings, row,   \* per thread: locals of the SIGSEGV path
    set,              \* the shared exit-state record: exit_code, exit_size
    stderr,           \* lines written to standard error
    invoked,          \* third-party handlers the OS has invoked: <<sig, handler>>
    regs,             \* per signal, the handler another component registered last
    ndeliv,
    status,           \* the process: running, exited with a code, killed by a signal
    HAVE_EXECINFO_H   \* build option

vars == <<disp, pc, i, sa, ohandler, pre, last, prev, hpc, hsig, hact,
          req, exit_strings, row, set, stderr, invoked, regs, ndeliv, status,
          HAVE_EXECINFO_H>>

callerVars == <<pc, i, sa, ohandler, pre, last, prev>>
handlerVars == <<hpc, hsig, hact, req, exit_strings, row>>
procVars == <<set, stderr, status>>

Threads == 1..NumThreads
NULL == -1

Init ==
    /\ disp = DefaultTable
    /\ pc = "idle" /\ i = 1 /\ sa = NoSa /\ ohandler = SIG_DFL
    /\ pre = DefaultTable /\ last = NoCall /\ prev = NoCall
    /\ hpc = [t \in Threads |-> "none"]
    /\ hsig = [t \in Threads |-> 0]
    /\ hact = [t \in Threads |-> 0]
    /\ req = [t \in Threads |-> 0]
    /\ exit_strings = [t \in Threads |-> NULL]
    /\ row = [t \in Threads |-> 0]
    /\ set \in [exit_code : {0}, exit_size : 0..StackCap]
    /\ stderr = <<>>
    /\ invoked = {}
    /\ regs = [s \in AllSignals |-> "none"]
    /\ ndeliv = 0
    /\ status = ProcRunning
    /\ HAVE_EXECINFO_H \in BOOLEAN

Quiet == \A t \in Threads : hpc[t] = "none"
Running == status.state = "running"

\* ---------------------------------------------------------------------------
\* install_spine_signal_handler, error.c:136-160

\* position after iteration k of a loop over the table: the next iteration,
\* or the code after the loop when the sentinel is reached
AfterIter(loop, k, after) ==
    IF spine_fatal_signals[k + 1] # 0 THEN <<loop, k + 1>> ELSE <<after, 1>>

Goto(p) == pc' = p[1] /\ i' = p[2]

CallInstall ==
    /\ Running /\ pc = "idle"
    /\ pre' = disp
    /\ Goto(IF spine_fatal_signals[1] # 0 THEN <<"install_query", 1>> ELSE <<"install_return", 1>>)
    /\ UNCHANGED <<disp, sa, ohandler, last, prev, handlerVars, procVars, invoked, regs, ndeliv, HAVE_EXECINFO_H>>

\* error.c:143-144: sigaction(sig, NULL, &sa) and the test on sa.sa_handler
InstallQuery ==
    /\ Running /\ pc = "install_query"
    /\ sa' = disp[spine_fatal_signals[i]]
    /\ IF InstallTest(sa')
          THEN Goto(<<"install_set", i>>)
          ELSE Goto(AfterIter("install_query", i, "install_signal"))
    /\ UNCHANGED <<disp, ohandler, pre, last, prev, handlerVars, procVars, invoked, regs, ndeliv, HAVE_EXECINFO_H>>

\* error.c:145-148
InstallSet ==
    /\ Running /\ pc = "install_set"
    /\ sa' = InstallAct(sa)
    /\ disp' = [disp EXCEPT ![spine_fatal_signals[i]] = sa']
    /\ Goto(AfterIter("install_query", i, "install_signal"))
    /\ UNCHANGED <<ohandler, pre, last, prev, handlerVars, procVars, invoked, regs, ndeliv, HAVE_EXECINFO_H>>

\* error.c:153-154: ohandler = signal(sig, spine_signal_handler) and the test
InstallSignal ==
    /\ Running /\ pc = "install_signal"
    /\ ohandler' = disp[spine_fatal_signals[i]].sa_handler
    /\ disp' = [disp EXCEPT ![spine_fatal_signals[i]] = SignalAct(spine_fatal_signals[i], SpineHandler)]
    /\ IF InstallKeep(ohandler')
          THEN Goto(AfterIter("install_signal", i, "install_return"))
          ELSE Goto(<<"install_restore", i>>)
    /\ UNCHANGED <<sa, pre, last, prev, handlerVars, procVars, invoked, regs, ndeliv, HAVE_EXECINFO_H>>

\* error.c:155: signal(sig, ohandler)
InstallRestore ==
    /\ Running /\ pc = "install_restore"
    /\ disp' = [disp EXCEPT ![spine_fatal_signals[i]] = SignalAct(spine_fatal_signals[i], InstallRestoreTo(ohandler))]
    /\ Goto(AfterIter("install_signal", i, "install_return"))
    /\ UNCHANGED <<sa, ohandler, pre, last, prev, handlerVars, procVars, invoked, regs, ndeliv, HAVE_EXECINFO_H>>

\* error.c:159
InstallReturn ==
    /\ Running /\ pc = "install_return"
    /\ pc' = "idle" /\ i' = 1 /\ sa' = NoSa /\ ohandler' = SIG_DFL
    /\ prev' = last
    /\ last' = [op |-> "install", pre |-> pre, post |-> disp]
    /\ pre' = DefaultTable
    /\ UNCHANGED <<disp, handlerVars, procVars, invoked, regs, ndeliv, HAVE_EXECINFO_H>>

install_spine_signal_handler ==
    \/ InstallQuery \/ InstallSet
    \/ InstallSignal \/ InstallRestore \/ InstallReturn

\* ---------------------------------------------------------------------------
\* uninstall_spine_signal_handler, error.c:166-186

CallUninstall ==
    /\ Running /\ pc = "idle"
    /\ pre' = disp
    /\ Goto(IF spine_fatal_signals[1] # 0 THEN <<"uninstall_query", 1>> ELSE <<"uninstall_return", 1>>)
    /\ UNCHANGED <<disp, sa, ohandler, last, prev, handlerVars, procVars, invoked, regs, ndeliv, HAVE_EXECINFO_H>>

\* error.c:173-174
UninstallQuery ==
    /\ Running /\ pc = "uninstall_query"
    /\ sa' = disp[spine_fatal_signals[i]]
    /\ IF UninstallTest(sa')
          THEN Goto(<<"uninstall_set", i>>)
          ELSE Goto(AfterIter("uninstall_query", i, "uninstall_signal"))
    /\ UNCHANGED <<disp, ohandler, pre, last, prev, handlerVars, procVars, invoked, regs, ndeliv, HAVE_EXECINFO_H>>

\* error.c:175-176
UninstallSet ==
    /\ Running /\ pc = "uninstall_set"
    /\ sa' = UninstallAct(sa)
    /\ disp' = [disp EXCEPT ![spine_fatal_signals[i]] = sa']
    /\ Goto(AfterIter("uninstall_query", i, "uninstall_signal"))
    /\ UNCHANGED <<ohandler, pre, last, prev, handlerVars, procVars, invoked, regs, ndeliv, HAVE_EXECINFO_H>>

\* error.c:181-182: ohandler = signal(sig, SIG_DFL) and the test
UninstallSignal ==
    /\ Running /\ pc = "uninstall_signal"
    /\ ohandler' = disp[spine_fatal_signals[i]].sa_handler
    /\ disp' = [disp EXCEPT ![spine_fatal_signals[i]] = SignalAct(spine_fatal_signals[i], SIG_DFL)]
    /\ IF UninstallKeep(ohandler')
          THEN Goto(AfterIter("uninstall_signal", i, "uninstall_return"))
          ELSE Goto(<<"uninstall_restore", i>>)
    /\ UNCHANGED <<sa, pre, last, prev, handlerVars, procVars, invoked, regs, ndeliv, HAVE_EXECINFO_H>>

\* error.c:183: signal(sig, ohandler)
UninstallRestore ==
    /\ Running /\ pc = "uninstall_restore"
    /\ disp' = [disp EXCEPT ![spine_fatal_signals[i]] = SignalAct(spine_fatal_signals[i], UninstallRestoreTo(ohandler))]
    /\ Goto(AfterIter("uninstall_signal", i, "uninstall_return"))
    /\ UNCHANGED <<sa, ohandler, pre, last, prev, handlerVars, procVars, invoked, regs, ndeliv, HAVE_EXECINFO_H>>

\* error.c:186
UninstallReturn ==
    /\ Running /\ pc = "uninstall_return"
    /\ pc' = "idle" /\ i' = 1 /\ sa' = NoSa /\ ohandler' = SIG_DFL
    /\ prev' = last
    /\ last' = [op |-> "uninstall", pre |-> pre, post |-> disp]
    /\ pre' = DefaultTable
    /\ UNCHANGED <<disp, handlerVars, procVars, invoked, regs, ndeliv, HAVE_EXECINFO_H>>

uninstall_spine_signal_handler ==
    \/ UninstallQuery \/ UninstallSet
    \/ UninstallSignal \/ UninstallRestore \/ UninstallReturn

\* ---------------------------------------------------------------------------
\* spine_signal_handler, error.c:46-117, one activation per interrupted thread

Line(a, txt, n) == [act |-> a, text |-> txt, arg |-> n]

GenericText == "Encountered An Unhandled Exception Signal Number"

\* variant of the switch: SIGINT shares the SIGABRT text, four cases missing
Msg_bad(sig) ==
    CASE sig = SIGABRT -> "Interrupted by Abort Signal"
      [] sig = SIGINT  -> "Interrupted by Abort Signal"
      [] sig = SIGSEGV -> "Encountered a Segmentation Fault"
      [] OTHER         -> GenericText
\* error.c:68-116: the diagnostic the switch selects
Msg(sig) ==
    CASE sig = SIGABRT -> "Interrupted by Abort Signal"
      [] sig = SIGINT  -> "Interrupted by Console Operator"
      [] sig = SIGSEGV -> "Encountered a Segmentation Fault"
      [] sig = SIGBUS  -> "Encountered a Bus Error"
      [] sig = SIGFPE  -> "Encountered a Floating Point Exception"
      [] sig = SIGQUIT -> "Encountered a Keyboard Quit Command"
      [] sig = SIGPIPE -> "Encountered a Broken Pipe"
      [] OTHER         -> GenericText

\* variant: the generic line is written without the signal's number
MsgArg_bad(sig) == 0
\* the %d argument of the line, error.c:114 ; 0 when the format has none
MsgArg(sig) == IF Msg(sig) = GenericText THEN sig ELSE 0

\* variant: a fixed code is stored instead of the signal's number
ExitCodeOf_bad(sig) == 1
\* error.c:49: the value stored in set.exit_code
ExitCodeOf(sig) == sig

\* error.c:98: the status passed to exit() (variant: exit(0))
ExitStatus_bad == 1 - 1
ExitStatus == 1

\* error.c:75-98: the one case of the switch that calls exit()
\* variant: the SIGBUS case ends the process too
Terminates_bad(sig) == sig = SIGSEGV \/ sig = SIGBUS
Terminates(sig) == sig = SIGSEGV

\* error.c:85: what backtrace(buffer, n) can return
\* variant: one frame more than the buffer was said to hold
BacktraceResults_bad(n) == 0..(n + 1)
BacktraceResults(n) == 0..n

\* error.c:88: the test on the result of backtrace_symbols()
\* variant: the loop is entered whatever the resolver returned
SymbolsOk_bad(r) == r = r
SymbolsOk(r) == r # NULL

\* variant: the handler does not reset the disposition
HReset_bad(t) ==
    /\ Running /\ hpc[t] = "reset"
    /\ hpc' = [hpc EXCEPT ![t] = "code"]
    /\ UNCHANGED <<disp, callerVars, hsig, hact, req, exit_strings, row, procVars, invoked, regs, ndeliv, HAVE_EXECINFO_H>>

\* error.c:47
HReset(t) ==
    /\ Running /\ hpc[t] = "reset"
    /\ disp' = [disp EXCEPT ![hsig[t]] = SignalAct(hsig[t], SIG_DFL)]
    /\ hpc' = [hpc EXCEPT ![t] = "code"]
    /\ UNCHANGED <<callerVars, hsig, hact, req, exit_strings, row, procVars, invoked, regs, ndeliv, HAVE_EXECINFO_H>>

\* error.c:49 (the timestamp of lines 58-66 changes no state)
HCode(t) ==
    /\ Running /\ hpc[t] = "code"
    /\ set' = [set EXCEPT !.exit_code = ExitCodeOf(hsig[t])]
    /\ hpc' = [hpc EXCEPT ![t] = "switch"]
    /\ UNCHANGED <<disp, callerVars, hsig, hact, req, exit_strings, row, stderr, status, invoked, regs, ndeliv, HAVE_EXECINFO_H>>

\* error.c:68-76, 101-116: the message; every case but SIGSEGV breaks and returns
HSwitch(t) ==
    /\ Running /\ hpc[t] = "switch"
    /\ stderr' = Append(stderr, Line(hact[t], Msg(hsig[t]), MsgArg(hsig[t])))
    /\ hpc' = [hpc EXCEPT ![t] =
                 IF Terminates(hsig[t])
                 THEN (IF HAVE_EXECINFO_H THEN "bt_header" ELSE "exit")
                 ELSE "return"]
    /\ UNCHANGED <<disp, callerVars, hsig, hact, req, exit_strings, row, set, status, invoked, regs, ndeliv, HAVE_EXECINFO_H>>

\* error.c:117: the handler returns to the interrupted code
HReturn(t) ==
    /\ Running /\ hpc[t] = "return"
    /\ hpc' = [hpc EXCEPT ![t] = "none"]
    /\ hsig' = [hsig EXCEPT ![t] = 0]
    /\ hact' = [hact EXCEPT ![t] = 0]
    /\ UNCHANGED <<disp, callerVars, req, exit_strings, row, procVars, invoked, regs, ndeliv, HAVE_EXECINFO_H>>

\* error.c:79-82
HBtHeader(t) ==
    /\ Running /\ hpc[t] = "bt_header"
    /\ row' = [row EXCEPT ![t] = 0]
    /\ exit_strings' = [exit_strings EXCEPT ![t] = NULL]
    /\ stderr' = Append(stderr, Line(hact[t], "Generating backtrace...", set.exit_size))
    /\ hpc' = [hpc EXCEPT ![t] = "bt_test"]
    /\ UNCHANGED <<disp, callerVars, hsig, hact, req, set, status, invoked, regs, ndeliv, HAVE_EXECINFO_H>>

\* error.c:84
HBtTest(t) ==
    /\ Running /\ hpc[t] = "bt_test"
    /\ hpc' = [hpc EXCEPT ![t] = IF set.exit_size # 0 THEN "bt_call" ELSE "exit"]
    /\ UNCHANGED <<disp, callerVars, hsig, hact, req, exit_strings, row, procVars, invoked, regs, ndeliv, HAVE_EXECINFO_H>>

\* error.c:85: the argument set.exit_size is read, backtrace() runs
HBtCall(t) ==
    /\ Running /\ hpc[t] = "bt_call"
    /\ req' = [req EXCEPT ![t] = set.exit_size]
    /\ hpc' = [hpc EXCEPT ![t] = "bt_ret"]
    /\ UNCHANGED <<disp, callerVars, hsig, hact, exit_strings, row, procVars, invoked, regs, ndeliv, HAVE_EXECINFO_H>>

\* error.c:85: backtrace() returns at most the count it was given
HBtRet(t) ==
    /\ Running /\ hpc[t] = "bt_ret"
    /\ \E n \in BacktraceResults(req[t]) : set' = [set EXCEPT !.exit_size = n]
    /\ hpc' = [hpc EXCEPT ![t] = "symbols"]
    /\ UNCHANGED <<disp, callerVars, hsig, hact, req, exit_strings, row, stderr, status, invoked, regs, ndeliv, HAVE_EXECINFO_H>>

\* error.c:86-88: backtrace_symbols() returns NULL or one string per frame
HSymbols(t) ==
    /\ Running /\ hpc[t] = "symbols"
    /\ \E r \in {NULL, set.exit_size} :
          /\ exit_strings' = [exit_strings EXCEPT ![t] = r]
          /\ hpc' = [hpc EXCEPT ![t] = IF SymbolsOk(r) THEN "loop" ELSE "exit"]
    /\ UNCHANGED <<disp, callerVars, hsig, hact, req, row, procVars, invoked, regs, ndeliv, HAVE_EXECINFO_H>>

\* error.c:89-91: the bound set.exit_size is read again on every iteration.
\* exit_strings[row] outside the array the resolver returned (or through NULL)
\* is undefined: the line is printed with whatever is read, or the read faults
\* and the process dies of SIGSEGV, whose disposition line 47 made SIG_DFL
HLoop(t) ==
    /\ Running /\ hpc[t] = "loop"
    /\ IF row[t] < set.exit_size
          THEN \/ /\ stderr' = Append(stderr, Line(hact[t], "frame", row[t]))
                  /\ row' = [row EXCEPT ![t] = row[t] + 1]
                  /\ UNCHANGED <<hpc, status>>
               \/ /\ ~(row[t] < exit_strings[t])
                  /\ status' = ProcKilled(SIGSEGV)
                  /\ UNCHANGED <<hpc, stderr, row>>
          ELSE /\ hpc' = [hpc EXCEPT ![t] = "free"]
               /\ UNCHANGED <<stderr, row, status>>
    /\ UNCHANGED <<disp, callerVars, hsig, hact, req, exit_strings, set, invoked, regs, ndeliv, HAVE_EXECINFO_H>>

\* error.c:93: free() releases the array; the pointer keeps its value
HFree(t) ==
    /\ Running /\ hpc[t] = "free"
    /\ hpc' = [hpc EXCEPT ![t] = "exit"]
    /\ UNCHANGED <<disp, callerVars, hsig, hact, req, exit_strings, row, procVars, invoked, regs, ndeliv, HAVE_EXECINFO_H>>

\* error.c:98
HExit(t) ==
    /\ Running /\ hpc[t] = "exit"
    /\ status' = ProcExited(ExitStatus)
    /\ hpc' = [hpc EXCEPT ![t] = "exited"]
    /\ UNCHANGED <<disp, callerVars, hsig, hact, req, exit_strings, row, set, stderr, invoked, regs, ndeliv, HAVE_EXECINFO_H>>

spine_signal_handler(t) ==
    \/ HReset(t) \/ HCode(t) \/ HSwitch(t) \/ HReturn(t) \/ HBtHeader(t) \/ HBtTest(t)
    \/ HBtCall(t) \/ HBtRet(t) \/ HSymbols(t) \/ HLoop(t) \/ HFree(t) \/ HExit(t)

\* ---------------------------------------------------------------------------
\* the environment: the OS delivering a signal, another component registering

\* the OS delivers sig to thread t and acts on the signal's disposition
Deliver(t, sig) ==
    /\ Running /\ hpc[t] = "none"
    /\ \A u \in Threads : u < t => hpc[u] # "none"
    /\ ndeliv' = ndeliv + 1
    /\ last' = NoCall /\ prev' = NoCall
    /\ LET h == disp[sig].sa_handler IN
       /\ status' = IF h = SIG_DFL THEN ProcKilled(sig) ELSE status
       /\ invoked' = IF h \in OtherHandlers THEN invoked \cup {<<sig, h>>} ELSE invoked
       /\ IF h = SpineHandler
             THEN /\ hpc' = [hpc EXCEPT ![t] = "reset"]
                  /\ hsig' = [hsig EXCEPT ![t] = sig]
                  /\ hact' = [hact EXCEPT ![t] = ndeliv + 1]
                  /\ req' = [req EXCEPT ![t] = 0]
                  /\ exit_strings' = [exit_strings EXCEPT ![t] = NULL]
                  /\ row' = [row EXCEPT ![t] = 0]
             ELSE UNCHANGED handlerVars
    /\ UNCHANGED <<disp, pc, i, sa, ohandler, pre, set, stderr, regs, HAVE_EXECINFO_H>>

Foreign(tbl) == {s \in AllSignals : tbl[s].sa_handler \notin {SIG_DFL, SpineHandler}}

\* another component registers its own disposition for sig
ThirdPartyRegister(sig, act) ==
    /\ Running
    /\ sig \in ForeignSignals
    /\ act \in ForeignActs(sig)
    /\ Cardinality(Foreign(disp)) < MaxForeign
    /\ disp' = [disp EXCEPT ![sig] = act]
    /\ regs' = [regs EXCEPT ![sig] = act.sa_handler]
    /\ last' = NoCall /\ prev' = NoCall
    /\ UNCHANGED <<pc, i, sa, ohandler, pre, handlerVars, procVars, invoked, ndeliv, HAVE_EXECINFO_H>>

\* ---------------------------------------------------------------------------
\* Spec: the daemon calls install and uninstall in any order, and other
\* components register their dispositions between the calls
Next ==
    \/ CallInstall
    \/ CallUninstall
    \/ install_spine_signal_handler
    \/ uninstall_spine_signal_handler
    \/ \E sig \in ForeignSignals : \E act \in ForeignActs(sig) :
          pc = "idle" /\ ThirdPartyRegister(sig, act)

Spec == Init /\ [][Next]_vars

\* SpecSig: signals arrive between the calls, one handler activation at a time
NextSig ==
    \/ Quiet /\ CallInstall
    \/ Quiet /\ CallUninstall
    \/ install_spine_signal_handler
    \/ uninstall_spine_signal_handler
    \/ \E t \in Threads : spine_signal_handler(t)
    \/ \E t \in Threads, sig \in AllSignals :
          pc = "idle" /\ Quiet /\ ndeliv < MaxDeliveries /\ Deliver(t, sig)

SpecSig == Init /\ [][NextSig]_vars

\* SpecConc: other components register, the daemon then makes up to two
\* calls, and a signal arrives at any instruction boundary of them
NextConc ==
    \/ prev = NoCall /\ ndeliv = 0 /\ CallInstall
    \/ prev = NoCall /\ ndeliv = 0 /\ CallUninstall
    \/ install_spine_signal_handler
    \/ uninstall_spine_signal_handler
    \/ \E t \in Threads : spine_signal_handler(t)
    \/ \E t \in Threads, sig \in AllSignals : ndeliv < MaxDeliveries /\ Deliver(t, sig)
    \/ \E sig \in ForeignSignals : \E act \in ForeignActs(sig) :
          pc = "idle" /\ last = NoCall /\ ndeliv = 0 /\ ThirdPartyRegister(sig, act)

SpecConc == Init /\ [][NextConc]_vars

\* the signals that arrive while another handler runs: one with a message of
\* its own, the one that ends the process, and the one without a case
ConcSignals == {SIGINT, SIGSEGV, SIGSYS}

\* at most one activation is running
OneActive == \A u, v \in Threads : (hpc[u] # "none" /\ hpc[v] # "none") => u = v

\* SpecHandlers: the daemon installs, and signals arrive, each possibly while
\* the handler of the one before it is running on another thread: activations
\* overlap in pairs
NextHandlers ==
    \/ Quiet /\ CallInstall
    \/ install_spine_signal_handler
    \/ \E t \in Threads : spine_signal_handler(t)
    \/ \E t \in Threads, sig \in ConcSignals :
          pc = "idle" /\ OneActive /\ ndeliv < NumThreads /\ Deliver(t, sig)

SpecHandlers == Init /\ [][NextHandlers]_vars

\* SpecRace: another component registers at any instruction boundary of install
NextRace ==
    \/ CallInstall
    \/ install_spine_signal_handler
    \/ \E sig \in ForeignSignals : \E act \in ForeignActs(sig) : ThirdPartyRegister(sig, act)

SpecRace == Init /\ [][NextRace]_vars

\* ===========================================================================
\* Properties

HandlerOf(tbl, s) == tbl[s].sa_handler

InInstall == pc \in {"install_query", "install_set", "install_signal", "install_restore", "install_return"}
InUninstall == pc \in {"uninstall_query", "uninstall_set", "uninstall_signal", "uninstall_restore", "uninstall_return"}

C2_Claim ==
    /\ InInstall =>
          \A s \in Monitored :
              HandlerOf(pre, s) \in OtherHandlers =>
                  /\ HandlerOf(disp, s) = HandlerOf(pre, s)
                  /\ \A t \in Threads : hpc[t] # "none" => hsig[t] # s
    /\ last.op = "install" =>
          \A s \in Monitored :
              HandlerOf(last.pre, s) \in OtherHandlers => HandlerOf(disp, s) = HandlerOf(last.pre, s)

C4_Claim ==
    InUninstall =>
        \A s \in Monitored :
            HandlerOf(pre, s) \in OtherHandlers \cup {SIG_IGN} =>
                HandlerOf(disp, s) = HandlerOf(pre, s)

\* C5 as stated: install followed by uninstall, from a table of SIG_DFL and
\* third-party handlers and with nothing in between, leaves every monitored
\* signal with the handler it had, and a third-party handler with the mask and
\* flags it was registered with.
C5_Claim ==
    (/\ last.op = "uninstall" /\ prev.op = "install"
     /\ \A s \in Monitored : HandlerOf(prev.pre, s) \in {SIG_DFL} \cup OtherHandlers)
    => \A s \in Monitored :
          /\ HandlerOf(last.post, s) = HandlerOf(prev.pre, s)
          /\ HandlerOf(prev.pre, s) \in OtherHandlers => last.post[s] = prev.pre[s]

\* C6: two installs in succession leave the disposition table that one leaves.
C6_InstallIdempotent ==
    (last.op = "install" /\ prev.op = "install") => last.post = prev.post

\* a second install has returned, over signals of its own and a third party's
C6_Witness ==
    /\ last.op = "install" /\ prev.op = "install" /\ last.post = disp
    /\ \E s \in Monitored : HandlerOf(prev.pre, s) = SIG_DFL /\ HandlerOf(disp, s) = SpineHandler
    /\ \E s \in Monitored : HandlerOf(prev.pre, s) \in OtherHandlers

ActLines(a) == SelectSeq(stderr, LAMBDA l : l.act = a)

\* C8: when an activation for a monitored signal other than SIGSEGV returns, it
\* has written exactly one line and set.exit_code is the signal's number; for
\* SIGINT the line is the "Interrupted by Console Operator" one.
C8_HandlerLine ==
    \A t \in Threads :
        (hpc[t] = "return" /\ hsig[t] \in Monitored \ {SIGSEGV}) =>
            /\ Len(ActLines(hact[t])) = 1
            /\ set.exit_code = hsig[t]
            /\ hsig[t] = SIGINT => ActLines(hact[t])[1].text = "Interrupted by Console Operator"

\* an activation for SIGINT is about to return
C8_Witness ==
    \E t \in Threads : hpc[t] = "return" /\ hsig[t] = SIGINT /\ Len(stderr) = 1

\* the frame lines of an activation's output from position k on, indexed from 0
FrameLines(L, k) ==
    \A n \in k..Len(L) : L[n].text = "frame" /\ L[n].arg = n - k

C10_Unmonitored ==
    /\ [](\A u \in Unmonitored :
            /\ HandlerOf(disp, u) # SpineHandler
            /\ \A t \in Threads : hsig[t] # u)
    /\ [][\A u \in Unmonitored :
            /\ (pc # "idle" \/ pc' # "idle") => disp'[u] = disp[u]
            /\ (\E t \in Threads : Deliver(t, u)) => (stderr' = stderr /\ hpc' = hpc)]_vars

\* SIGTERM was delivered while install had bound the monitored signals, and
\* took its default action
C10_Witness ==
    /\ status = ProcKilled(15)
    /\ stderr = <<>>
    /\ \A s \in Monitored : HandlerOf(disp, s) = SpineHandler

\* C11: the first step of an activation for s sets the disposition of s to
\* SIG_DFL and nothing else: until it has run the activation has written no
\* line and its step changes neither set nor stderr. From then on the
\* disposition of s stays SIG_DFL while the activation runs, only a step of
\* install makes it anything else again, and a delivery of s under SIG_DFL
\* kills the process and starts no activation.
C11_ResetFirst ==
    /\ [](\A t \in Threads :
            /\ hpc[t] = "reset" => ActLines(hact[t]) = <<>>
            /\ hpc[t] \notin {"none", "reset"} => HandlerOf(disp, hsig[t]) = SIG_DFL)
    /\ [][/\ \A t \in Threads :
              (hpc[t] = "reset" /\ hpc'[t] # "reset") =>
                  /\ HandlerOf(disp', hsig[t]) = SIG_DFL
                  /\ set' = set /\ stderr' = stderr
          /\ \A s \in Monitored :
              /\ (HandlerOf(disp, s) = SIG_DFL /\ HandlerOf(disp', s) # SIG_DFL) => InInstall
              /\ (HandlerOf(disp, s) = SIG_DFL /\ \E t \in Threads : Deliver(t, s)) =>
                    (status' = ProcKilled(s) /\ hpc' = hpc /\ stderr' = stderr)]_vars

\* SIGINT was handled once, the handler returned, and the next SIGINT killed
\* the process
C11_Witness ==
    /\ status = ProcKilled(SIGINT)
    /\ Quiet
    /\ Len(stderr) = 1 /\ stderr[1].text = "Interrupted by Console Operator"

\* C12: SIGSEGV is the only signal whose activation ends the process. An
\* activation for any other signal reaches the return with exactly one line
\* written and the process running, never enters the backtrace or exit steps,
\* and returns leaving the process running and the signal's disposition SIG_DFL.
C12_OnlySegvExits ==
    /\ [](/\ \A t \in Threads :
              /\ (hpc[t] # "none" /\ hsig[t] # SIGSEGV) =>
                    /\ hpc[t] \in {"reset", "code", "switch", "return"}
                    /\ Running
              /\ hpc[t] = "return" =>
                    /\ hsig[t] # SIGSEGV
                    /\ Len(ActLines(hact[t])) = 1
                    /\ HandlerOf(disp, hsig[t]) = SIG_DFL
          /\ status.state = "exited" =>
                \E t \in Threads : hpc[t] = "exited" /\ hsig[t] = SIGSEGV)
    /\ [][\A t \in Threads :
            (hpc[t] = "return" /\ hpc'[t] = "none") =>
                /\ status' = ProcRunning
                /\ HandlerOf(disp', hsig[t]) = SIG_DFL]_vars

\* the handler has logged SIGSYS and returned: the process runs on, with
\* SIGSYS at SIG_DFL and the other monitored signals still bound
C12_Witness ==
    /\ Quiet /\ Running /\ pc = "idle"
    /\ Len(stderr) = 1 /\ stderr[1].text = GenericText /\ stderr[1].arg = SIGSYS
    /\ HandlerOf(disp, SIGSYS) = SIG_DFL
    /\ HandlerOf(disp, SIGSEGV) = SpineHandler

\* the table of diagnostics by signal
C13_Table(sig) ==
    CASE sig = SIGABRT -> "Interrupted by Abort Signal"
      [] sig = SIGINT  -> "Interrupted by Console Operator"
      [] sig = SIGSEGV -> "Encountered a Segmentation Fault"
      [] sig = SIGBUS  -> "Encountered a Bus Error"
      [] sig = SIGFPE  -> "Encountered a Floating Point Exception"
      [] sig = SIGQUIT -> "Encountered a Keyboard Quit Command"
      [] sig = SIGPIPE -> "Encountered a Broken Pipe"

\* the signals with a case of their own
C13_Named == {SIGABRT, SIGINT, SIGSEGV, SIGBUS, SIGFPE, SIGQUIT, SIGPIPE}

\* C13: the first line an activation writes is decided by its signal alone:
\* the table's text, without a number, for the seven named signals, and for
\* SIGSYS the generic text with the signal's number. The switch gives every
\* value without a case the generic text and its number, and no named signal
\* the generic text.
C13_Diagnostic ==
    /\ \A t \in Threads :
          hpc[t] \notin {"none", "reset", "code", "switch"} =>
              /\ Len(ActLines(hact[t])) >= 1
              /\ ActLines(hact[t])[1] =
                    IF hsig[t] \in C13_Named
                       THEN Line(hact[t], C13_Table(hsig[t]), 0)
                       ELSE Line(hact[t], "Encountered An Unhandled Exception Signal Number", hsig[t])
    /\ \A v \in 1..31 :
          IF v \in C13_Named
             THEN Msg(v) = C13_Table(v) /\ Msg(v) # GenericText
             ELSE Msg(v) = GenericText /\ MsgArg(v) = v

\* an activation for SIGSYS has written the generic line with the number 31
C13_Witness ==
    \E t \in Threads :
        /\ hpc[t] = "return" /\ hsig[t] = SIGSYS
        /\ stderr = <<Line(hact[t], GenericText, 31)>>

\* C14 as stated: set.exit_size never exceeds the capacity of set.exit_stack,
\* and no step increases it.
C14_Original ==
    /\ [](set.exit_size <= StackCap)
    /\ [][set.exit_size' <= set.exit_size]_vars

\* C14 amended: set.exit_size never exceeds the capacity of set.exit_stack, and
\* neither does the count an activation passes to backtrace(). A step that
\* increases set.exit_size is the store of backtrace()'s result by an
\* activation that read its count while another activation for SIGSEGV was
\* running, and the new value is at most that count; with one activation at a
\* time no step increases it.
C14_Bounded ==
    /\ [](/\ set.exit_size <= StackCap
          /\ \A t \in Threads : req[t] <= StackCap)
    /\ [][set.exit_size' > set.exit_size =>
            \E t \in Threads :
                /\ hpc[t] = "bt_ret" /\ hpc'[t] = "symbols"
                /\ set.exit_size' <= req[t]
                /\ \E u \in Threads \ {t} : hpc[u] # "none" /\ hsig[u] = SIGSEGV]_vars

\* an activation resolved zero frames and finds set.exit_size at the capacity
\* when it enters its loop: another activation has raised it since
C14_Witness ==
    \E t \in Threads :
        /\ hpc[t] = "loop" /\ exit_strings[t] = 0
        /\ set.exit_size = StackCap

C16_NullSymbols ==
    /\ [](\A t \in Threads :
            /\ hpc[t] \in {"loop", "free"} => exit_strings[t] # NULL
            /\ (/\ hpc[t] = "exited" /\ hsig[t] = SIGSEGV
                /\ req[t] > 0 /\ set.exit_size > 0 /\ exit_strings[t] = NULL) =>
                  /\ status = ProcExited(1)
                  /\ Len(ActLines(hact[t])) = 2
                  /\ \A n \in 1..2 : ActLines(hact[t])[n].text # "frame")
    /\ [][\A t \in Threads :
            (hpc[t] = "symbols" /\ hpc'[t] # "symbols" /\ exit_strings'[t] = NULL) =>
                (hpc'[t] = "exit" /\ stderr' = stderr)]_vars

\* frames were captured, the resolver returned NULL, and the process has
\* exited with status 1
C16_Witness ==
    \E t \in Threads :
        /\ hpc[t] = "exited" /\ hsig[t] = SIGSEGV
        /\ req[t] = StackCap /\ set.exit_size = StackCap /\ exit_strings[t] = NULL
        /\ status = ProcExited(1)

\* an activation that has stored its exit code and not yet returned
Wrote(t) == hpc[t] \notin {"none", "reset", "code"}

\* (each fprintf is one step: the lock stdio takes inside it is held for that
\* call only and is no part of error.c)
\* C17: while the process runs, every activation that has not finished can
\* take its next step whatever the other threads are doing; set.exit_code
\* changes only by an activation storing its own signal's number; and once two
\* overlapping activations have both stored, set.exit_code is the signal of
\* one of them.
C17_LastWriter ==
    /\ [](/\ \A t \in Threads :
              (Running /\ hpc[t] \notin {"none", "exited"}) => ENABLED spine_signal_handler(t)
          /\ \A t, u \in Threads :
              (t # u /\ Wrote(t) /\ Wrote(u)) => set.exit_code \in {hsig[t], hsig[u]})
    /\ [][set.exit_code' # set.exit_code =>
            \E t \in Threads :
                /\ hpc[t] = "code" /\ hpc'[t] = "switch"
                /\ set.exit_code' = hsig[t]]_vars

\* SIGINT arrived first and SIGSYS second, both handlers are about to
\* return, and the code left is SIGINT's: its handler stored last
C17_Witness ==
    \E t, u \in Threads :
        /\ hpc[t] = "return" /\ hsig[t] = SIGINT
        /\ hpc[u] = "return" /\ hsig[u] = SIGSYS
        /\ hact[t] < hact[u]
        /\ set.exit_code = SIGINT

\* C18: every frame line an activation has written carries an index that is
\* at least 0 and less than the number of strings backtrace_symbols() returned
\* to that activation.
C18_Claim ==
    \A t \in Threads :
        hpc[t] \in {"loop", "free", "exit", "exited"} =>
            \A n \in 1..Len(ActLines(hact[t])) :
                ActLines(hact[t])[n].text = "frame" =>
                    /\ 0 <= ActLines(hact[t])[n].arg
                    /\ ActLines(hact[t])[n].arg < exit_strings[t]

\* C19: when install has returned, every monitored signal that was at SIG_DFL
\* before the call is bound to spine_signal_handler with an empty mask and
\* SA_RESTART as its only flag, and no step of the second pass changes the
\* mask or the flags of any signal.
C19_Claim ==
    /\ [](last.op = "install" =>
            \A s \in Monitored :
                HandlerOf(last.pre, s) = SIG_DFL =>
                    last.post[s] = SigAct(SpineHandler, {}, {"SA_RESTART"}))
    /\ [][(pc = "install_signal" \/ pc = "install_restore") =>
            \A s \in AllSignals :
                /\ disp'[s].sa_mask = disp[s].sa_mask
                /\ disp'[s].sa_flags = disp[s].sa_flags]_vars

\* C20: when install has returned, every monitored signal for which another
\* component registered a handler of its own while the call was running is
\* bound to that handler.
C20_Claim ==
    (pc = "idle" /\ last.op = "install") =>
        \A s \in Monitored :
            (regs[s] \in OtherHandlers /\ HandlerOf(last.pre, s) # regs[s]) =>
                HandlerOf(disp, s) = regs[s]

====
